---- MODULE Spec2Model ----
(***************************************************************************)
(* Model of the transcript acquisition pipeline of youtube_summarizer:     *)
(* utils/transcript_downloader.py (class TranscriptDownloader).            *)
(*                                                                         *)
(* A Python str is modelled as a sequence of characters (one-character     *)
(* TLA+ strings), so that substring tests, split, strip, lower and the     *)
(* regular expressions of the code are computed as the code computes them. *)
(* The three fixed placeholder sentences are abbreviated to one atom each. *)
(* Python's None is the one-atom sequence None, which no str equals.        *)
(***************************************************************************)
EXTENDS Integers, Sequences, FiniteSets, TLC

None == <<"None">>

(***************************************************************************)
(* String library (Python str methods used by the code)                    *)
(***************************************************************************)
Min(a, b) == IF a < b THEN a ELSE b

\* s[:n]
Prefix(s, n) == SubSeq(s, 1, Min(n, Len(s)))

\* s[n+1:]
Drop(s, n) == SubSeq(s, n + 1, Len(s))

\* needle in s
Contains(s, needle) ==
    \E i \in 0..(Len(s) - Len(needle)) : SubSeq(s, i + 1, i + Len(needle)) = needle

\* s.startswith(p)
StartsWith(s, p) == Len(p) <= Len(s) /\ SubSeq(s, 1, Len(p)) = p

\* s.endswith(p)
EndsWith(s, p) == Len(p) <= Len(s) /\ SubSeq(s, Len(s) - Len(p) + 1, Len(s)) = p

\* index of the first occurrence of character c in s, 0 when absent (s.find(c) + 1)
IndexOf(s, c) ==
    IF \E i \in 1..Len(s) : s[i] = c
    THEN CHOOSE i \in 1..Len(s) : s[i] = c /\ \A j \in 1..(i - 1) : s[j] # c
    ELSE 0

\* s.split(c): the list of pieces between occurrences of the character c
RECURSIVE Split(_, _)
Split(s, c) ==
    LET i == IndexOf(s, c)
    IN  IF i = 0 THEN <<s>>
        ELSE <<SubSeq(s, 1, i - 1)>> \o Split(Drop(s, i), c)

\* sep.join(parts)
RECURSIVE Join(_, _)
Join(parts, sep) ==
    IF Len(parts) = 0 THEN <<>>
    ELSE IF Len(parts) = 1 THEN parts[1]
    ELSE parts[1] \o sep \o Join(Tail(parts), sep)

Whitespace == {" ", "\t", "\r", "\n"}

\* s.strip()
RECURSIVE LStrip(_)
LStrip(s) == IF Len(s) > 0 /\ s[1] \in Whitespace THEN LStrip(Tail(s)) ELSE s

RECURSIVE RStrip(_)
RStrip(s) ==
    IF Len(s) > 0 /\ s[Len(s)] \in Whitespace THEN RStrip(SubSeq(s, 1, Len(s) - 1)) ELSE s

Strip(s) == RStrip(LStrip(s))

UpperCase ==
    <<"A", "B", "C", "D", "E", "F", "G", "H", "I", "J", "K", "L", "M",
      "N", "O", "P", "Q", "R", "S", "T", "U", "V", "W", "X", "Y", "Z">>

LowerCase ==
    <<"a", "b", "c", "d", "e", "f", "g", "h", "i", "j", "k", "l", "m",
      "n", "o", "p", "q", "r", "s", "t", "u", "v", "w", "x", "y", "z">>

LowerChar(c) ==
    IF \E k \in 1..Len(UpperCase) : UpperCase[k] = c
    THEN LowerCase[CHOOSE k \in 1..Len(UpperCase) : UpperCase[k] = c]
    ELSE c

\* s.lower()
Lower(s) == [i \in 1..Len(s) |-> LowerChar(s[i])]

Digits == {"0", "1", "2", "3", "4", "5", "6", "7", "8", "9"}

\* Python truthiness of a str-or-None value ("if x:")
Truthy(x) == x # None /\ x # <<>>


(***************************************************************************)
(* Markers and literals of the code                                        *)
(***************************************************************************)
\* 'youtu.be'
sYoutuBe ==
    <<"y", "o", "u", "t", "u", ".", "b", "e">>
\* 'youtube.com'
sYoutubeCom ==
    <<"y", "o", "u", "t", "u", "b", "e", ".", "c", "o", "m">>
\* 'v'
sV ==
    <<"v">>
\* 'download'
sDownload ==
    <<"d", "o", "w", "n", "l", "o", "a", "d">>
\* 'srt'
sSrt ==
    <<"s", "r", "t">>
\* 'txt'
sTxt ==
    <<"t", "x", "t">>
\* 'vtt'
sVtt ==
    <<"v", "t", "t">>
\* 'transcript'
sTranscript ==
    <<"t", "r", "a", "n", "s", "c", "r", "i", "p", "t">>
\* 'subtitle'
sSubtitle ==
    <<"s", "u", "b", "t", "i", "t", "l", "e">>
\* 'caption'
sCaption ==
    <<"c", "a", "p", "t", "i", "o", "n">>
\* '.srt'
sDotSrt ==
    <<".", "s", "r", "t">>
\* 'WEBVTT'
sWEBVTT ==
    <<"W", "E", "B", "V", "T", "T">>
\* ' --> '
sArrow ==
    <<" ", "-", "-", ">", " ">>
\* 'http://'
sHttp ==
    <<"h", "t", "t", "p", ":", "/", "/">>
\* 'https://'
sHttps ==
    <<"h", "t", "t", "p", "s", ":", "/", "/">>
\* 'https:'
sHttpsColon ==
    <<"h", "t", "t", "p", "s", ":">>
\* 'https://downsub.com/'
BASE_URL ==
    <<"h", "t", "t", "p", "s", ":", "/", "/", "d", "o", "w", "n", "s", "u", "b", ".", "c", "o",
      "m", "/">>
\* 'https://downsub.com'
sBaseOrigin ==
    <<"h", "t", "t", "p", "s", ":", "/", "/", "d", "o", "w", "n", "s", "u", "b", ".", "c", "o",
      "m">>
\* 'dQw4w9WgXcQ'
idRick ==
    <<"d", "Q", "w", "4", "w", "9", "W", "g", "X", "c", "Q">>
\* 'yGSmg45roPo'
idMistral ==
    <<"y", "G", "S", "m", "g", "4", "5", "r", "o", "P", "o">>
\* 'abcdefghijk'
idOther ==
    <<"a", "b", "c", "d", "e", "f", "g", "h", "i", "j", "k">>

(***************************************************************************)
(* Inputs: the URLs handed to get_transcript and the preferred languages   *)
(***************************************************************************)
\* 'https://youtu.be/dQw4w9WgXcQ'
urlShortRick ==
    <<"h", "t", "t", "p", "s", ":", "/", "/", "y", "o", "u", "t", "u", ".", "b", "e", "/", "d",
      "Q", "w", "4", "w", "9", "W", "g", "X", "c", "Q">>
\* 'https://www.youtube.com/watch?v=dQw4w9WgXcQ'
urlWatchRick ==
    <<"h", "t", "t", "p", "s", ":", "/", "/", "w", "w", "w", ".", "y", "o", "u", "t", "u", "b",
      "e", ".", "c", "o", "m", "/", "w", "a", "t", "c", "h", "?", "v", "=", "d", "Q", "w", "4",
      "w", "9", "W", "g", "X", "c", "Q">>
\* 'https://youtube.com/watch?v=yGSmg45roPo&t=1'
urlWatchMistral ==
    <<"h", "t", "t", "p", "s", ":", "/", "/", "y", "o", "u", "t", "u", "b", "e", ".", "c", "o",
      "m", "/", "w", "a", "t", "c", "h", "?", "v", "=", "y", "G", "S", "m", "g", "4", "5", "r",
      "o", "P", "o", "&", "t", "=", "1">>
\* 'https://www.youtube.com/watch?t=1&v=abcdefghijk#x'
urlWatchLate ==
    <<"h", "t", "t", "p", "s", ":", "/", "/", "w", "w", "w", ".", "y", "o", "u", "t", "u", "b",
      "e", ".", "c", "o", "m", "/", "w", "a", "t", "c", "h", "?", "t", "=", "1", "&", "v", "=",
      "a", "b", "c", "d", "e", "f", "g", "h", "i", "j", "k", "#", "x">>
\* 'https://youtu.be/'
urlShortEmpty ==
    <<"h", "t", "t", "p", "s", ":", "/", "/", "y", "o", "u", "t", "u", ".", "b", "e", "/">>
\* 'https://youtu.be/abcdefghijk/x'
urlShortExtra ==
    <<"h", "t", "t", "p", "s", ":", "/", "/", "y", "o", "u", "t", "u", ".", "b", "e", "/", "a",
      "b", "c", "d", "e", "f", "g", "h", "i", "j", "k", "/", "x">>
\* 'https://www.youtube.com/watch?t=1'
urlWatchNoV ==
    <<"h", "t", "t", "p", "s", ":", "/", "/", "w", "w", "w", ".", "y", "o", "u", "t", "u", "b",
      "e", ".", "c", "o", "m", "/", "w", "a", "t", "c", "h", "?", "t", "=", "1">>
\* 'https://www.youtube.com/watch?v='
urlWatchBlankV ==
    <<"h", "t", "t", "p", "s", ":", "/", "/", "w", "w", "w", ".", "y", "o", "u", "t", "u", "b",
      "e", ".", "c", "o", "m", "/", "w", "a", "t", "c", "h", "?", "v", "=">>
\* 'https://example.com/?u=youtu.be'
urlOtherHost ==
    <<"h", "t", "t", "p", "s", ":", "/", "/", "e", "x", "a", "m", "p", "l", "e", ".", "c", "o",
      "m", "/", "?", "u", "=", "y", "o", "u", "t", "u", ".", "b", "e">>
\* 'https://example.com/video'
urlUnrelated ==
    <<"h", "t", "t", "p", "s", ":", "/", "/", "e", "x", "a", "m", "p", "l", "e", ".", "c", "o",
      "m", "/", "v", "i", "d", "e", "o">>

Urls ==
    {urlShortRick, urlWatchRick, urlWatchMistral, urlWatchLate, urlShortEmpty,
     urlShortExtra, urlWatchNoV, urlWatchBlankV, urlOtherHost, urlUnrelated}

\* 'en'
langEn ==
    <<"e", "n">>
\* 'EN'
langEN ==
    <<"E", "N">>
\* 'fr'
langFr ==
    <<"f", "r">>

Languages == {langEn, langEN, langFr}

(***************************************************************************)
(* HTML documents returned by the scraping target.  A document is the      *)
(* sequence of its elements in document order; parent is the index of the  *)
(* enclosing element (0 for the document root).  The empty sequence is the *)
(* empty response body.                                                    *)
(***************************************************************************)
\* '/download?f=en.srt'
hrefEnSrt ==
    <<"/", "d", "o", "w", "n", "l", "o", "a", "d", "?", "f", "=", "e", "n", ".", "s", "r", "t">>
\* 'Download SRT (en)'
textDownloadSrtEn ==
    <<"D", "o", "w", "n", "l", "o", "a", "d", " ", "S", "R", "T", " ", "(", "e", "n", ")">>
\* '/download/1.srt'
hrefDl1 ==
    <<"/", "d", "o", "w", "n", "l", "o", "a", "d", "/", "1", ".", "s", "r", "t">>
\* '/download/2.srt'
hrefDl2 ==
    <<"/", "d", "o", "w", "n", "l", "o", "a", "d", "/", "2", ".", "s", "r", "t">>
\* 'https://cdn.example/download/3.txt'
hrefDlTxt ==
    <<"h", "t", "t", "p", "s", ":", "/", "/", "c", "d", "n", ".", "e", "x", "a", "m", "p", "l",
      "e", "/", "d", "o", "w", "n", "l", "o", "a", "d", "/", "3", ".", "t", "x", "t">>
\* ' Subtitle FR '
textSubtitleFr ==
    <<" ", "S", "u", "b", "t", "i", "t", "l", "e", " ", "F", "R", " ">>
\* 'Subtitle EN'
textSubtitleEn ==
    <<"S", "u", "b", "t", "i", "t", "l", "e", " ", "E", "N">>
\* '/download?id=1'
hrefDlId ==
    <<"/", "d", "o", "w", "n", "l", "o", "a", "d", "?", "i", "d", "=", "1">>
\* 'Download SRT'
textDownloadSRT ==
    <<"D", "o", "w", "n", "l", "o", "a", "d", " ", "S", "R", "T">>
\* 'download/transcript'
hrefDlTranscript ==
    <<"d", "o", "w", "n", "l", "o", "a", "d", "/", "t", "r", "a", "n", "s", "c", "r", "i", "p",
      "t">>
\* 'Get'
textGet ==
    <<"G", "e", "t">>
\* '/download/app'
hrefDlPlain ==
    <<"/", "d", "o", "w", "n", "l", "o", "a", "d", "/", "a", "p", "p">>
\* 'Transcript en'
textTranscriptEn ==
    <<"T", "r", "a", "n", "s", "c", "r", "i", "p", "t", " ", "e", "n">>
\* '/get/b'
hrefGetB ==
    <<"/", "g", "e", "t", "/", "b">>
\* 'Download EN'
textDownloadEn ==
    <<"D", "o", "w", "n", "l", "o", "a", "d", " ", "E", "N">>
\* 'raw'
textRaw ==
    <<"r", "a", "w">>
\* '//cdn.example/c.vtt'
hrefVtt ==
    <<"/", "/", "c", "d", "n", ".", "e", "x", "a", "m", "p", "l", "e", "/", "c", ".", "v", "t",
      "t">>
\* 'Caption french'
textCaptionFr ==
    <<"C", "a", "p", "t", "i", "o", "n", " ", "f", "r", "e", "n", "c", "h">>
\* '/about'
hrefAbout ==
    <<"/", "a", "b", "o", "u", "t">>
\* 'About'
textAbout ==
    <<"A", "b", "o", "u", "t">>

(***************************************************************************)
(* Payloads served for a candidate resource                                *)
(***************************************************************************)
\* '1\n00:00:01,000 --> 00:00:02,000\nhello\n\n2\n00:00:03,000 --> 00:00:04,000\n world \r\n'
paySrt ==
    <<"1", "\n", "0", "0", ":", "0", "0", ":", "0", "1", ",", "0", "0", "0", " ", "-", "-",
      ">", " ", "0", "0", ":", "0", "0", ":", "0", "2", ",", "0", "0", "0", "\n", "h", "e",
      "l", "l", "o", "\n", "\n", "2", "\n", "0", "0", ":", "0", "0", ":", "0", "3", ",", "0",
      "0", "0", " ", "-", "-", ">", " ", "0", "0", ":", "0", "0", ":", "0", "4", ",", "0", "0",
      "0", "\n", " ", "w", "o", "r", "l", "d", " ", "\r", "\n">>
\* '1\n00:00:01,000 --> 00:00:02,000\n\n2\n'
payOnlyMarkup ==
    <<"1", "\n", "0", "0", ":", "0", "0", ":", "0", "1", ",", "0", "0", "0", " ", "-", "-",
      ">", " ", "0", "0", ":", "0", "0", ":", "0", "2", ",", "0", "0", "0", "\n", "\n", "2",
      "\n">>
\* 'WEBVTT\n\n00:00:01.000 --> 00:00:02.000\nhello\n'
payVtt ==
    <<"W", "E", "B", "V", "T", "T", "\n", "\n", "0", "0", ":", "0", "0", ":", "0", "1", ".",
      "0", "0", "0", " ", "-", "-", ">", " ", "0", "0", ":", "0", "0", ":", "0", "2", ".", "0",
      "0", "0", "\n", "h", "e", "l", "l", "o", "\n">>
\* 'WEBVTT - en\n\n'
payVttHeaderOnly ==
    <<"W", "E", "B", "V", "T", "T", " ", "-", " ", "e", "n", "\n", "\n">>
\* 'hello world'
payPlain ==
    <<"h", "e", "l", "l", "o", " ", "w", "o", "r", "l", "d">>
\* ''
payEmpty ==
    <<>>

Payloads == {paySrt, payOnlyMarkup, payVtt, payVttHeaderOnly, payPlain, payEmpty}

Elem(tag, class, href, text, parent) ==
    [tag |-> tag, class |-> class, href |-> href, text |-> text, parent |-> parent]

Anchor(href, text, parent) == Elem("a", {}, href, text, parent)

Button(text, parent) == Elem("button", {}, None, text, parent)

Div(parent) == Elem("div", {}, None, <<>>, parent)

\* <a href="/download?f=en.srt">Download SRT (en)</a>
docScenario == <<Anchor(hrefEnSrt, textDownloadSrtEn, 0)>>

\* a document that matches the three tiers with three different links
docAllTiers ==
    <<Anchor(hrefDl1, textSubtitleFr, 0),
      Div(0), Button(textDownloadEn, 2), Anchor(hrefGetB, textRaw, 2),
      Anchor(hrefVtt, textCaptionFr, 0)>>

\* no download link; a button next to a link, and a loose caption link
docTwoThree ==
    <<Div(0), Button(textDownloadSRT, 1), Anchor(hrefGetB, textRaw, 1),
      Anchor(hrefVtt, textCaptionFr, 0)>>

\* only loose links
docLoose == <<Anchor(hrefVtt, textCaptionFr, 0), Anchor(hrefAbout, textSubtitleEn, 0)>>

\* three download links in different languages
docTwoCandidates ==
    <<Anchor(hrefDl1, textSubtitleFr, 0), Anchor(hrefDl2, textSubtitleEn, 0),
      Anchor(hrefDlTxt, textTranscriptEn, 0)>>

\* download links whose subtitle marker sits in one place only
docMarkers ==
    <<Anchor(hrefDlId, textDownloadSRT, 0), Anchor(hrefDlTranscript, textGet, 0),
      Anchor(hrefDlPlain, textTranscriptEn, 0)>>

\* nothing that looks like a transcript link
docNone == <<Anchor(hrefAbout, textAbout, 0)>>

\* a button beside an anchor without href, and a button-styled anchor
docButtons ==
    <<Div(0), Button(textDownloadEn, 1), Anchor(None, textRaw, 1),
      Elem("a", {"btn"}, hrefGetB, textSubtitleFr, 0)>>

\* Python's None for html_content
NoHtml == <<Elem("None", {}, None, <<>>, 0)>>

HtmlDocs ==
    {<<>>, docScenario, docAllTiers, docTwoThree, docLoose, docTwoCandidates,
     docMarkers, docNone, docButtons}

(***************************************************************************)
(* Video identifier resolution (get_transcript, first lines)               *)
(***************************************************************************)
\* urlparse(url).query: the fragment is cut at the first '#', then the query at the first '?'
\* urlsplit first removes tab, CR and LF from the URL
UnsafeUrlChars == {"\t", "\r", "\n"}

RemoveUnsafe(url) == SelectSeq(url, LAMBDA c : c \notin UnsafeUrlChars)

UrlQuery(url) ==
    LET u == RemoveUnsafe(url)
        h == IndexOf(u, "#")
        noFragment == IF h = 0 THEN u ELSE SubSeq(u, 1, h - 1)
        q == IndexOf(noFragment, "?")
    IN  IF q = 0 THEN <<>> ELSE Drop(noFragment, q)

\* parse_qs(query).get(name, [None])[0]: pairs are split at '&', a pair without '='
\* or with a blank value is dropped, the first value of the name is returned
ParseQsFirst(query, name) ==
    LET pairs == Split(query, "&")
        IsPair(p) == IndexOf(p, "=") # 0
        Name(p) == SubSeq(p, 1, IndexOf(p, "=") - 1)
        Value(p) == Drop(p, IndexOf(p, "="))
        hits == SelectSeq(pairs, LAMBDA p : IsPair(p) /\ Name(p) = name /\ Len(Value(p)) > 0)
    IN  IF Len(hits) = 0 THEN None ELSE Value(hits[1])

ExtractVideoId(url) ==
    IF Contains(url, sYoutuBe)
    THEN LET parts == Split(url, "/") IN parts[Len(parts)]
    ELSE IF Contains(url, sYoutubeCom)
    THEN ParseQsFirst(UrlQuery(url), sV)
    ELSE None

\* variant: "if video_id is None:"
NotResolved_NoneOnly(vid) == vid = None

\* "if not video_id": resolution failed
NotResolved(vid) == ~Truthy(vid)

(***************************************************************************)
(* Placeholder strategy (get_youtube_transcript_direct)                    *)
(***************************************************************************)
textRick == <<"This is a sample transcript for Rick Astley's 'Never Gonna Give You Up'. The actual lyrics are not included to avoid copyright issues.">>

textMistral == <<"This is a sample transcript for the video about Mistral Small 3.1 AI model. The video discusses how this model performs compared to GPT-4o while running on a laptop.">>

textGenericHead == <<"This is a sample transcript for video ">>

textGenericTail == <<". The actual transcript could not be downloaded. DownSub requires JavaScript to function properly, which our script cannot execute. To get the actual transcript, you would need to use a headless browser like Selenium or Playwright that can execute JavaScript.">>

known_transcripts == [id \in {idRick, idMistral} |-> IF id = idRick THEN textRick ELSE textMistral]

\* variant: no generic text for an unknown identifier
get_youtube_transcript_direct_KnownOnly(vid) ==
    IF vid \in DOMAIN known_transcripts THEN known_transcripts[vid] ELSE None

get_youtube_transcript_direct(vid) ==
    IF vid \in DOMAIN known_transcripts
    THEN known_transcripts[vid]
    ELSE textGenericHead \o vid \o textGenericTail

(***************************************************************************)
(* Link discovery (get_transcript_options)                                 *)
(***************************************************************************)
\* urljoin(BASE_URL, href) for the href shapes of the documents
UrlJoin(href) ==
    IF StartsWith(href, sHttp) \/ StartsWith(href, sHttps) THEN href
    ELSE IF StartsWith(href, <<"/", "/">>) THEN sHttpsColon \o href
    ELSE IF StartsWith(href, <<"/">>) THEN sBaseOrigin \o href
    ELSE BASE_URL \o href

RECURSIVE IsDescendant(_, _, _)
IsDescendant(doc, j, p) ==
    IF p = 0 THEN TRUE
    ELSE IF doc[j].parent = 0 THEN FALSE
    ELSE doc[j].parent = p \/ IsDescendant(doc, doc[j].parent, p)

Indices(doc) == [i \in 1..Len(doc) |-> i]

\* element.get_text(): the element's own text followed by the text of its descendants
GetText(doc, i) ==
    LET inside == SelectSeq(Indices(doc), LAMBDA j : j > i /\ IsDescendant(doc, j, i))
    IN  doc[i].text \o Join([k \in 1..Len(inside) |-> doc[inside[k]].text], <<>>)

\* link.get_text().strip().lower()
LinkText(doc, i) == Lower(Strip(GetText(doc, i)))

Candidate(href, text, match) ==
    [url |-> UrlJoin(href), text |-> text, language_match |-> match]

\* variant: every marker is looked for in the link target and in the text
IsTranscriptLink_EitherPlace(href, text) ==
    /\ Truthy(href)
    /\ \E m \in {sSrt, sTxt, sTranscript, sSubtitle} : Contains(href, m) \/ Contains(text, m)

\* the test of Method 1 that a download link is a transcript link
IsTranscriptLink(href, text) ==
    /\ Truthy(href)
    /\ \/ Contains(href, sSrt)
       \/ Contains(href, sTxt)
       \/ Contains(text, sTranscript)
       \/ Contains(text, sSubtitle)

\* soup.select('a[href*="download"]')
SelectsDownloadAnchor(e) == e.tag = "a" /\ e.href # None /\ Contains(e.href, sDownload)

\* Method 1
DirectLinkTier(doc, language) ==
    LET kept == SelectSeq(Indices(doc), LAMBDA i :
                    /\ SelectsDownloadAnchor(doc[i])
                    /\ IsTranscriptLink(doc[i].href, LinkText(doc, i)))
    IN  [k \in 1..Len(kept) |->
            Candidate(doc[kept[k]].href, LinkText(doc, kept[k]),
                      Contains(LinkText(doc, kept[k]), Lower(language)))]

\* soup.select('button, .btn, .button, a.btn, a.button')
SelectsButton(e) == e.tag = "button" \/ "btn" \in e.class \/ "button" \in e.class

IsButtonText(text) ==
    \/ Contains(text, sDownload)
    \/ Contains(text, sSubtitle)
    \/ Contains(text, sTranscript)
    \/ Contains(text, sSrt)

\* button.parent.find('a'): the first anchor inside the button's parent, 0 when none
ParentAnchor(doc, i) ==
    LET anchors == SelectSeq(Indices(doc), LAMBDA j :
                       doc[j].tag = "a" /\ IsDescendant(doc, j, doc[i].parent))
    IN  IF Len(anchors) = 0 THEN 0 ELSE anchors[1]

\* Method 2
ButtonProxyTier(doc, language) ==
    LET kept == SelectSeq(Indices(doc), LAMBDA i :
                    /\ SelectsButton(doc[i])
                    /\ IsButtonText(LinkText(doc, i))
                    /\ ParentAnchor(doc, i) # 0
                    /\ Truthy(doc[ParentAnchor(doc, i)].href))
    IN  [k \in 1..Len(kept) |->
            Candidate(doc[ParentAnchor(doc, kept[k])].href, LinkText(doc, kept[k]),
                      Contains(LinkText(doc, kept[k]), Lower(language)))]

IsLooseLink(href, text) ==
    /\ Truthy(href)
    /\ \/ Contains(href, sSrt)
       \/ Contains(href, sVtt)
       \/ Contains(href, sSubtitle)
       \/ Contains(text, sSrt)
       \/ Contains(text, sSubtitle)
       \/ Contains(text, sCaption)

\* Method 3
LooseLinkTier(doc, language) ==
    LET kept == SelectSeq(Indices(doc), LAMBDA i :
                    doc[i].tag = "a" /\ IsLooseLink(doc[i].href, LinkText(doc, i)))
    IN  [k \in 1..Len(kept) |->
            Candidate(doc[kept[k]].href, LinkText(doc, kept[k]),
                      Contains(LinkText(doc, kept[k]), Lower(language)))]

\* the tiers whose loop runs, in order: a tier runs only "if not download_links"
TiersRun(doc, language) ==
    LET l1 == DirectLinkTier(doc, language)
        l2 == IF l1 = <<>> THEN ButtonProxyTier(doc, language) ELSE <<>>
    IN  <<1>> \o (IF l1 = <<>> THEN <<2>> ELSE <<>>)
             \o (IF l1 = <<>> /\ l2 = <<>> THEN <<3>> ELSE <<>>)

\* variant: the three methods always run
DiscoverLinks_AllTiers(doc, language) ==
    DirectLinkTier(doc, language) \o ButtonProxyTier(doc, language)
        \o LooseLinkTier(doc, language)

\* download_links after the three methods: Methods 2 and 3 run "if not download_links"
DiscoverLinks(doc, language) ==
    LET l1 == DirectLinkTier(doc, language)
        l2 == IF l1 = <<>> THEN ButtonProxyTier(doc, language) ELSE l1
    IN  IF l2 = <<>> THEN LooseLinkTier(doc, language) ELSE l2

\* variant: the first link is taken whatever its language
SelectLink_First(links) == links[1].url

\* the selection at the end of get_transcript_options, for a non-empty list
SelectLink(links) ==
    LET matching == SelectSeq(links, LAMBDA l : l.language_match)
    IN  IF Len(matching) > 0 THEN matching[1].url ELSE links[1].url

(***************************************************************************)
(* Format normalizer (_convert_srt_to_text and the test in                 *)
(* download_transcript)                                                    *)
(***************************************************************************)
\* re.match(r'^\d+$', line)
IsNumberLine(line) == Len(line) > 0 /\ \A i \in 1..Len(line) : line[i] \in Digits

\* \d{2}:\d{2}:\d{2},\d{3}
IsTimestamp(s) ==
    /\ Len(s) = 12
    /\ \A i \in {1, 2, 4, 5, 7, 8, 10, 11, 12} : s[i] \in Digits
    /\ s[3] = ":" /\ s[6] = ":" /\ s[9] = ","

\* re.match(r'^\d{2}:\d{2}:\d{2},\d{3} --> \d{2}:\d{2}:\d{2},\d{3}$', line)
IsTimeRangeLine(line) ==
    /\ Len(line) = 29
    /\ IsTimestamp(SubSeq(line, 1, 12))
    /\ SubSeq(line, 13, 17) = sArrow
    /\ IsTimestamp(SubSeq(line, 18, 29))

\* re.match(r'^WEBVTT', line)
IsHeaderLine(line) == StartsWith(line, sWEBVTT)

IsContentLine(line) ==
    /\ Len(Strip(line)) > 0
    /\ ~IsNumberLine(Strip(line))
    /\ ~IsTimeRangeLine(Strip(line))
    /\ ~IsHeaderLine(Strip(line))

_convert_srt_to_text(srt_content) ==
    LET kept == SelectSeq(Split(srt_content, "\n"), IsContentLine)
    IN  Join([k \in 1..Len(kept) |-> Strip(kept[k])], <<" ">>)

\* content[:100]
ContentHead == 100

\* variant: the marker must open the content
IsSrt_StartsWith(transcript_url, content) ==
    EndsWith(transcript_url, sDotSrt) \/ StartsWith(content, sWEBVTT)

\* transcript_url.endswith('.srt') or 'WEBVTT' in content[:100]
IsSrt(transcript_url, content) ==
    EndsWith(transcript_url, sDotSrt) \/ Contains(Prefix(content, ContentHead), sWEBVTT)

Normalize(transcript_url, content) ==
    IF IsSrt(transcript_url, content) THEN _convert_srt_to_text(content) ELSE content


(***************************************************************************)
(* url_processor: validate_youtube_url, extract_video_id, process_youtube_url *)
(***************************************************************************)
\* '/watch?v='
sWatchV ==
    <<"/", "w", "a", "t", "c", "h", "?", "v", "=">>
\* 'www.'
sWww ==
    <<"w", "w", "w", ".">>
\* 'https://www.youtube.com/watch?v='
sFullUrlHead ==
    <<"h", "t", "t", "p", "s", ":", "/", "/", "w", "w", "w", ".", "y", "o", "u", "t", "u", "b",
      "e", ".", "c", "o", "m", "/", "w", "a", "t", "c", "h", "?", "v", "=">>

Letters == {UpperCase[k] : k \in 1..Len(UpperCase)} \cup {LowerCase[k] : k \in 1..Len(LowerCase)}

\* [a-zA-Z0-9_-]
IdChars == Letters \cup Digits \cup {"_", "-"}

\* {11}
IdLength == 11

\* "$": the end of the string, or just before a newline that ends it
AtEnd(rest) == rest = <<>> \/ rest = <<"\n">>

\* [a-zA-Z0-9_-]{11} at the head of rest
HasId(rest) == Len(rest) >= IdLength /\ \A i \in 1..IdLength : rest[i] \in IdChars

\* (?:&\S*)?$
OptionalParams(rest) ==
    \/ AtEnd(rest)
    \/ /\ Len(rest) > 0
       /\ rest[1] = "&"
       /\ \E n \in 1..Len(rest) :
            /\ \A i \in 2..n : rest[i] \notin Whitespace
            /\ AtEnd(Drop(rest, n))

\* ^https?://youtu\.be/[a-zA-Z0-9_-]{11}$
youtu_be_pattern(url) ==
    \E scheme \in {sHttp, sHttps} :
        LET head == scheme \o sYoutuBe \o <<"/">>
            rest == Drop(url, Len(head))
        IN  StartsWith(url, head) /\ HasId(rest) /\ AtEnd(Drop(rest, IdLength))

\* ^https?://(?:www\.)?youtube\.com/watch\?v=[a-zA-Z0-9_-]{11}(?:&\S*)?$
youtube_com_pattern(url) ==
    \E scheme \in {sHttp, sHttps}, www \in {<<>>, sWww} :
        LET head == scheme \o www \o sYoutubeCom \o sWatchV
            rest == Drop(url, Len(head))
        IN  StartsWith(url, head) /\ HasId(rest) /\ OptionalParams(Drop(rest, IdLength))

validate_youtube_url(url) == youtu_be_pattern(url) \/ youtube_com_pattern(url)

\* index of the first character of s that is in cs, 0 when there is none
FirstOf(s, cs) ==
    LET hits == {i \in 1..Len(s) : s[i] \in cs}
    IN  IF hits = {} THEN 0 ELSE CHOOSE i \in hits : \A j \in hits : i <= j

\* urlparse(url).path: what stands after scheme and netloc, up to '?' or '#'
UrlParsePath(url) ==
    LET u == RemoveUnsafe(url)
        colon == FirstOf(u, {":"})
        hasScheme == /\ colon > 1
                     /\ u[1] \in Letters
                     /\ \A i \in 1..(colon - 1) : u[i] \in Letters \cup Digits \cup {"+", "-", "."}
        rest == IF hasScheme THEN Drop(u, colon) ELSE u
        body == Drop(rest, 2)
        slash == FirstOf(body, {"/", "?", "#"})
        afterNetloc == IF StartsWith(rest, <<"/", "/">>)
                       THEN IF slash = 0 THEN <<>> ELSE Drop(body, slash - 1)
                       ELSE rest
        end == FirstOf(afterNetloc, {"?", "#"})
    IN  IF end = 0 THEN afterNetloc ELSE SubSeq(afterNetloc, 1, end - 1)

\* path.strip('/')
RECURSIVE StripSlashes(_)
StripSlashes(s) ==
    IF Len(s) > 0 /\ s[1] = "/" THEN StripSlashes(Tail(s))
    ELSE IF Len(s) > 0 /\ s[Len(s)] = "/" THEN StripSlashes(SubSeq(s, 1, Len(s) - 1))
    ELSE s

extract_video_id(url) ==
    IF Contains(url, sYoutuBe)
    THEN StripSlashes(UrlParsePath(url))
    ELSE IF Contains(url, sYoutubeCom)
    THEN ParseQsFirst(UrlQuery(url), sV)
    ELSE None

get_full_youtube_url(vid) == IF ~Truthy(vid) THEN None ELSE sFullUrlHead \o vid

\* the pair (video_id, full_url)
process_youtube_url(url) ==
    IF ~validate_youtube_url(url) THEN <<None, None>>
    ELSE IF ~Truthy(extract_video_id(url)) THEN <<None, None>>
    ELSE <<extract_video_id(url), get_full_youtube_url(extract_video_id(url))>>

\* 'ftp://'
sFtp ==
    <<"f", "t", "p", ":", "/", "/">>
\* 'm.'
sMobile ==
    <<"m", ".">>
\* '&feature=youtu.be'
sFeatureShare ==
    <<"&", "f", "e", "a", "t", "u", "r", "e", "=", "y", "o", "u", "t", "u", ".", "b", "e">>
\* '&t=1'
sTimeParam ==
    <<"&", "t", "=", "1">>
\* '/watch?t=1&v='
sWatchLateV ==
    <<"/", "w", "a", "t", "c", "h", "?", "t", "=", "1", "&", "v", "=">>

ArgSchemes == {sHttp, sHttps, sFtp}

ArgHosts == {sYoutuBe, sYoutubeCom, sWww \o sYoutubeCom, sMobile \o sYoutubeCom}

ArgIds == {idRick, idOther}

\* what follows the host in the URLs given on the command line
ArgTails(id) ==
    {<<"/">> \o id,
     <<"/">> \o id \o <<"\n">>,
     <<"/">> \o id \o <<"/">>,
     <<"/">> \o SubSeq(id, 1, IdLength - 1),
     sWatchV \o id,
     sWatchV \o id \o <<"\n">>,
     sWatchV \o id \o <<"x">>,
     sWatchV \o id \o sTimeParam,
     sWatchV \o id \o sFeatureShare,
     sWatchV \o id \o <<"&", " ", "x">>,
     sWatchV \o id \o <<"#", "t">>,
     sWatchLateV \o id}

ArgUrls ==
    {scheme \o host \o tail :
        scheme \in ArgSchemes, host \in ArgHosts, tail \in UNION {ArgTails(id) : id \in ArgIds}}

\* the URLs given to the command-line workflow
MainUrls == {url \in ArgUrls : StartsWith(url, sHttps) /\ Contains(url, idOther)}

(***************************************************************************)
(* summarizer: summarize_with_llm, fallback_summarization                  *)
(***************************************************************************)
\* the answer of the API to the one POST: whether its body is JSON, whether it
\* has a non-empty 'choices', whether choices[0] has message.content, and that
\* content (None for a JSON null)
sSummaryText ==
    <<"S", "u", "m", "m", "a", "r", "y", ".">>

LlmReplies ==
    [json : BOOLEAN, choices : BOOLEAN, wellformed : BOOLEAN, content : {None, <<>>, sSummaryText}]

\* summarize_with_llm: None without a key, on a request error, and on any
\* exception raised while reading the reply
summarize_with_llm(key, post, reply) ==
    IF ~key THEN None
    ELSE IF post = 0 \/ (400 <= post /\ post < 600) THEN None
    ELSE IF ~reply.json THEN None
    ELSE IF ~reply.choices THEN None
    ELSE IF ~reply.wellformed THEN None
    ELSE reply.content

\* [.!?]
SentencePunct == {".", "!", "?"}

\* end of the run of whitespace that starts at i
RECURSIVE RunEnd(_, _)
RunEnd(s, i) == IF i < Len(s) /\ s[i + 1] \in Whitespace THEN RunEnd(s, i + 1) ELSE i

\* re.split(r'(?<=[.!?])\s+(?=[A-Z])', s): b is where the current piece starts,
\* i the position being scanned
RECURSIVE SentenceSplit(_, _, _)
SentenceSplit(s, b, i) ==
    IF i > Len(s) THEN <<SubSeq(s, b, Len(s))>>
    ELSE IF s[i] \in Whitespace /\ i > 1 /\ s[i - 1] \in SentencePunct
    THEN IF RunEnd(s, i) < Len(s) /\ s[RunEnd(s, i) + 1] \in {UpperCase[k] : k \in 1..Len(UpperCase)}
         THEN <<SubSeq(s, b, i - 1)>> \o SentenceSplit(s, RunEnd(s, i) + 1, RunEnd(s, i) + 1)
         ELSE SentenceSplit(s, b, RunEnd(s, i) + 1)
    ELSE SentenceSplit(s, b, i + 1)

\* sentences=5
FallbackSentences == 5

sFallbackNote == <<"\n\n(Note: This is a simple extractive summary generated as a fallback.)">>

fallback_summarization(text) ==
    LET sentences_list == SentenceSplit(text, 1, 1)
    IN  IF Len(sentences_list) <= FallbackSentences THEN text
        ELSE Join(SubSeq(sentences_list, 1, FallbackSentences), <<" ">>) \o sFallbackNote

\* variant: "if summary is None:"
UseFallback_NoneOnly(llm) == llm = None

\* "if not summary:"
UseFallback(llm) == ~Truthy(llm)

\* 'Hi.'
tokHi == <<"H", "i", ".">>
\* 'ok?'
tokOk == <<"o", "k", "?">>
\* 'So'
tokSo == <<"S", "o">>

Tokens == {tokHi, tokOk, tokSo}

\* most tokens in a transcript given to summarize_transcript
MaxTokens == 6

SummarizerTranscripts ==
    {None} \cup {Join(ts, <<" ">>) : ts \in UNION {[1..n -> Tokens] : n \in 0..MaxTokens}}

(***************************************************************************)
(* The orchestrator get_transcript as a state machine                      *)
(***************************************************************************)
VARIABLES
    pc,              \* position in get_transcript
    youtube_url,     \* argument of get_transcript
    language,        \* argument of get_transcript
    video_id,        \* local of get_transcript
    html_content,    \* local of get_transcript
    download_links,  \* local of get_transcript_options
    tiers,           \* the methods of get_transcript_options that ran
    transcript_url,  \* local of get_transcript
    response_text,   \* response.text in download_transcript
    transcript,      \* local of get_transcript
    result,          \* value returned by get_transcript
    events,          \* network requests, delays and file writes, in order
    calls,           \* the methods get_transcript called, in order
    requests,        \* number of get_transcript calls started on this downloader
    args_url,        \* args.url of main, the argument of process_youtube_url
    main_video_id,   \* video_id of main
    full_url,        \* full_url of main
    api_key,         \* whether the summarizer has an API key
    summary          \* value returned by summarize_transcript

vars ==
    <<pc, youtube_url, language, video_id, html_content, download_links, tiers,
      transcript_url, response_text, transcript, result, events, calls, requests,
      args_url, main_video_id, full_url, api_key, summary>>

\* the variables of main and of the summarizer
outerVars == <<args_url, main_video_id, full_url, api_key, summary>>

\* number of get_transcript calls made on one TranscriptDownloader
MaxRequests == 2

\* a local not assigned yet
Unset == <<"Unset">>

\* get_transcript is used on its own: main and the summarizer are not involved
OuterIdle ==
    /\ args_url = Unset
    /\ main_video_id = Unset
    /\ full_url = Unset
    /\ api_key = TRUE
    /\ summary = Unset

\* outcome of one HTTP request: the final status code, or 0 when the request
\* raised a connection error and there is no response
ConnectionError == 0

StatusCodes == {200, 304, 404, 503}

NetOutcomes == {ConnectionError} \cup StatusCodes

\* variant: every status outside 200-299 raises
RaisesForStatus_Non2xx(status) == status < 200 \/ status >= 300

\* variant: only server errors raise
RaisesForStatus_ServerOnly(status) == 500 <= status /\ status < 600

\* response.raise_for_status() raises for 4xx and 5xx
RaisesForStatus(status) == 400 <= status /\ status < 600

\* the request raises requests.RequestException
RequestFails(outcome) == outcome = ConnectionError \/ RaisesForStatus(outcome)

Event(op, outcome) == [op |-> op, outcome |-> outcome]

\* outcome of a dump write in events
Written(written) == IF written THEN 1 ELSE 0

Init ==
    /\ OuterIdle
    /\ requests = 1
    /\ pc = "start"
    /\ youtube_url \in Urls
    /\ language \in Languages
    /\ video_id = Unset
    /\ html_content = NoHtml
    /\ download_links = <<>>
    /\ tiers = <<>>
    /\ transcript_url = Unset
    /\ response_text = Unset
    /\ transcript = Unset
    /\ result = Unset
    /\ events = <<>>
    /\ calls = <<>>

\* get_transcript, lines 288-298
Resolve ==
    /\ UNCHANGED outerVars
    /\ pc = "start"
    /\ video_id' = ExtractVideoId(youtube_url)
    /\ IF NotResolved(video_id')
       THEN pc' = "done" /\ result' = None
       ELSE pc' = "submit" /\ result' = result
    /\ UNCHANGED <<youtube_url, language, html_content, download_links, tiers,
                   transcript_url, response_text, transcript, events, calls, requests>>

\* "if html_content:" / "if not html_content:"
HtmlTruthy(html) == html # NoHtml /\ html # <<>>

\* variant: a failed GET of the root page is tried again
SubmitEvents_RetryGet(get, post) ==
    IF get # 0 /\ get < 400
    THEN <<[op |-> "GET_ROOT", outcome |-> get], [op |-> "POST", outcome |-> post]>>
    ELSE <<[op |-> "GET_ROOT", outcome |-> get], [op |-> "GET_ROOT", outcome |-> get]>>

\* submit_url_to_downsub: the events issued and the value returned
SubmitEvents(get, post) ==
    IF RequestFails(get) THEN <<Event("GET_ROOT", get)>>
    ELSE <<Event("GET_ROOT", get), Event("POST", post)>>

SubmitResult(get, post, body) ==
    IF RequestFails(get) \/ RequestFails(post) THEN NoHtml ELSE body

\* get_transcript, lines 301-302
SubmitUrlToDownsub ==
    /\ UNCHANGED outerVars
    /\ pc = "submit"
    /\ \E get \in NetOutcomes, post \in NetOutcomes, body \in HtmlDocs :
        /\ events' = events \o SubmitEvents(get, post)
        /\ html_content' = SubmitResult(get, post, body)
    /\ calls' = Append(calls, "submit_url_to_downsub")
    /\ pc' = IF HtmlTruthy(html_content') THEN "options" ELSE "direct"
    /\ UNCHANGED <<youtube_url, language, video_id, download_links, tiers,
                   transcript_url, response_text, transcript, result, requests>>

\* get_transcript_options: the value returned; a failed dump write is caught
OptionsResult(html, lang, written) ==
    IF ~HtmlTruthy(html) THEN None
    ELSE IF ~written THEN None
    ELSE IF DiscoverLinks(html, lang) = <<>> THEN None
    ELSE SelectLink(DiscoverLinks(html, lang))

\* get_transcript, lines 303-304
GetTranscriptOptions ==
    /\ UNCHANGED outerVars
    /\ pc = "options"
    /\ \E written \in BOOLEAN :
        /\ events' = Append(events, Event("WRITE_HTML", Written(written)))
        /\ transcript_url' = OptionsResult(html_content, language, written)
        /\ download_links' = IF written THEN DiscoverLinks(html_content, language) ELSE <<>>
        /\ tiers' = IF written THEN TiersRun(html_content, language) ELSE <<>>
    /\ calls' = Append(calls, "get_transcript_options")
    /\ pc' = IF Truthy(transcript_url') THEN "download" ELSE "direct"
    /\ UNCHANGED <<youtube_url, language, video_id, html_content, response_text,
                   transcript, result, requests>>

\* variant: no delay before the request
DownloadEvents_NoDelay(get, written) ==
    IF get = 0 \/ (400 <= get /\ get < 600)
    THEN <<[op |-> "GET_RESOURCE", outcome |-> get]>>
    ELSE <<[op |-> "GET_RESOURCE", outcome |-> get],
           [op |-> "WRITE_TEXT", outcome |-> IF written THEN 1 ELSE 0]>>

\* download_transcript past its guard: the events issued
DownloadEvents(get, written) ==
    IF RequestFails(get) THEN <<Event("SLEEP", 1), Event("GET_RESOURCE", get)>>
    ELSE <<Event("SLEEP", 1), Event("GET_RESOURCE", get), Event("WRITE_TEXT", Written(written))>>

\* download_transcript catches requests.RequestException only: a failed dump
\* write raises OSError out of download_transcript and out of get_transcript
DownloadRaises(get, written) == ~RequestFails(get) /\ ~written

DownloadResult(url, get, body) ==
    IF RequestFails(get) THEN None ELSE Normalize(url, body)

\* download_transcript as called: "if not transcript_url: return None" comes first
download_transcript_events(url, get, written) ==
    IF ~Truthy(url) THEN <<>> ELSE DownloadEvents(get, written)

download_transcript_raises(url, get, written) == Truthy(url) /\ DownloadRaises(get, written)

download_transcript(url, get, body) ==
    IF ~Truthy(url) THEN None ELSE DownloadResult(url, get, body)

\* variant: "if transcript is not None:"
ScrapeAccepted_NotNone(text) == text # None

\* variant: the scrape result is never returned
ScrapeAccepted_Never(text) == FALSE

\* "if transcript:" the scrape result is returned
ScrapeAccepted(text) == Truthy(text)

\* get_transcript, lines 305-307
DownloadTranscript ==
    /\ UNCHANGED outerVars
    /\ pc = "download"
    /\ \E get \in NetOutcomes, body \in Payloads, written \in BOOLEAN :
        /\ events' = events \o download_transcript_events(transcript_url, get, written)
        /\ response_text' = IF RequestFails(get) THEN response_text ELSE body
        /\ IF download_transcript_raises(transcript_url, get, written)
           THEN /\ pc' = "raised"
                /\ UNCHANGED <<transcript, result>>
           ELSE /\ transcript' = download_transcript(transcript_url, get, body)
                /\ IF ScrapeAccepted(transcript')
                   THEN pc' = "done" /\ result' = transcript'
                   ELSE pc' = "direct" /\ result' = result
    /\ calls' = Append(calls, "download_transcript")
    /\ UNCHANGED <<youtube_url, language, video_id, html_content, download_links, tiers,
                   transcript_url, requests>>

\* get_transcript, lines 309-311
GetYoutubeTranscriptDirect ==
    /\ UNCHANGED outerVars
    /\ pc = "direct"
    /\ result' = get_youtube_transcript_direct(video_id)
    /\ calls' = Append(calls, "get_youtube_transcript_direct")
    /\ pc' = "done"
    /\ UNCHANGED <<youtube_url, language, video_id, html_content, download_links, tiers,
                   transcript_url, response_text, transcript, events, requests>>

\* the caller calls get_transcript again on the same downloader
NewRequest ==
    /\ UNCHANGED outerVars
    /\ pc \in {"done", "raised"}
    /\ requests < MaxRequests
    /\ requests' = requests + 1
    /\ pc' = "start"
    /\ youtube_url' \in Urls
    /\ language' \in Languages
    /\ video_id' = Unset
    /\ html_content' = NoHtml
    /\ download_links' = <<>>
    /\ tiers' = <<>>
    /\ transcript_url' = Unset
    /\ response_text' = Unset
    /\ transcript' = Unset
    /\ result' = Unset
    /\ events' = <<>>
    /\ calls' = <<>>

Next ==
    \/ Resolve
    \/ SubmitUrlToDownsub
    \/ GetTranscriptOptions
    \/ DownloadTranscript
    \/ GetYoutubeTranscriptDirect
    \/ NewRequest

Spec == Init /\ [][Next]_vars

(***************************************************************************)
(* The normalization step of download_transcript on its own: every caption *)
(* document of up to MaxLines lines, served from every kind of resource    *)
(* URL                                                                     *)
(***************************************************************************)
\* 'hello'
lineHello ==
    <<"h", "e", "l", "l", "o">>
\* ' world \r'
lineWorld ==
    <<" ", "w", "o", "r", "l", "d", " ", "\r">>
\* '  '
lineBlank ==
    <<" ", " ">>
\* '12'
lineNumber ==
    <<"1", "2">>
\* '00:00:01,000 --> 00:00:02,000'
lineSrtRange ==
    <<"0", "0", ":", "0", "0", ":", "0", "1", ",", "0", "0", "0", " ", "-", "-", ">", " ", "0",
      "0", ":", "0", "0", ":", "0", "2", ",", "0", "0", "0">>
\* '00:00:01.000 --> 00:00:02.000'
lineVttRange ==
    <<"0", "0", ":", "0", "0", ":", "0", "1", ".", "0", "0", "0", " ", "-", "-", ">", " ", "0",
      "0", ":", "0", "0", ":", "0", "2", ".", "0", "0", "0">>
\* 'WEBVTT - en'
lineHeader ==
    <<"W", "E", "B", "V", "T", "T", " ", "-", " ", "e", "n">>
\* 'a WEBVTT b'
lineMention ==
    <<"a", " ", "W", "E", "B", "V", "T", "T", " ", "b">>
\* 'the quick brown fox jumps over the lazy dog again.'
lineLong ==
    <<"t", "h", "e", " ", "q", "u", "i", "c", "k", " ", "b", "r", "o", "w", "n", " ", "f", "o",
      "x", " ", "j", "u", "m", "p", "s", " ", "o", "v", "e", "r", " ", "t", "h", "e", " ", "l",
      "a", "z", "y", " ", "d", "o", "g", " ", "a", "g", "a", "i", "n", ".">>

ContentLines == {lineHello, lineWorld, lineMention, lineLong}

MarkupLines == {<<>>, lineBlank, lineNumber, lineSrtRange, lineVttRange, lineHeader}

CaptionLines == ContentLines \cup MarkupLines

\* number of lines of a caption document
MaxLines == 3

\* the documents: up to MaxLines lines joined by newlines
CaptionDocs ==
    {Join(lines, <<"\n">>) : lines \in UNION {[1..n -> CaptionLines] : n \in 0..MaxLines}}

\* 'https://downsub.com/download/1.srt'
resUrlSrt ==
    <<"h", "t", "t", "p", "s", ":", "/", "/", "d", "o", "w", "n", "s", "u", "b", ".", "c", "o",
      "m", "/", "d", "o", "w", "n", "l", "o", "a", "d", "/", "1", ".", "s", "r", "t">>
\* 'https://downsub.com/download/1.srt?t=1'
resUrlSrtQuery ==
    <<"h", "t", "t", "p", "s", ":", "/", "/", "d", "o", "w", "n", "s", "u", "b", ".", "c", "o",
      "m", "/", "d", "o", "w", "n", "l", "o", "a", "d", "/", "1", ".", "s", "r", "t", "?", "t",
      "=", "1">>
\* 'https://cdn.example/c.vtt'
resUrlVtt ==
    <<"h", "t", "t", "p", "s", ":", "/", "/", "c", "d", "n", ".", "e", "x", "a", "m", "p", "l",
      "e", "/", "c", ".", "v", "t", "t">>
\* 'https://downsub.com/get/b'
resUrlPlain ==
    <<"h", "t", "t", "p", "s", ":", "/", "/", "d", "o", "w", "n", "s", "u", "b", ".", "c", "o",
      "m", "/", "g", "e", "t", "/", "b">>

ResourceUrls == {resUrlSrt, resUrlSrtQuery, resUrlVtt, resUrlPlain}

InitNormalizer ==
    /\ OuterIdle
    /\ requests = 1
    /\ pc = "normalize"
    /\ youtube_url = urlShortRick
    /\ language = langEn
    /\ video_id = idRick
    /\ html_content = NoHtml
    /\ download_links = <<>>
    /\ tiers = <<>>
    /\ transcript_url \in ResourceUrls
    /\ response_text \in CaptionDocs
    /\ transcript = Unset
    /\ result = Unset
    /\ events = <<>>
    /\ calls = <<>>

\* download_transcript, lines 200-206
NormalizeContent ==
    /\ UNCHANGED outerVars
    /\ pc = "normalize"
    /\ transcript' = Normalize(transcript_url, response_text)
    /\ pc' = "normalized"
    /\ UNCHANGED <<youtube_url, language, video_id, html_content, download_links, tiers,
                   transcript_url, response_text, result, events, calls, requests>>

NextNormalizer == NormalizeContent

SpecNormalizer == InitNormalizer /\ [][NextNormalizer]_vars

(***************************************************************************)
(* download_transcript called on its own, with or without a URL            *)
(***************************************************************************)
InitDownload ==
    /\ OuterIdle
    /\ requests = 1
    /\ pc = "call_download"
    /\ youtube_url = urlShortRick
    /\ language = langEn
    /\ video_id = idRick
    /\ html_content = NoHtml
    /\ download_links = <<>>
    /\ tiers = <<>>
    /\ transcript_url \in ResourceUrls \cup {None, <<>>}
    /\ response_text = Unset
    /\ transcript = Unset
    /\ result = Unset
    /\ events = <<>>
    /\ calls = <<>>

\* download_transcript, lines 166-210
CallDownloadTranscript ==
    /\ UNCHANGED outerVars
    /\ pc = "call_download"
    /\ \E get \in NetOutcomes, body \in Payloads, written \in BOOLEAN :
        /\ events' = download_transcript_events(transcript_url, get, written)
        /\ response_text' =
                IF ~Truthy(transcript_url) \/ RequestFails(get) THEN response_text ELSE body
        /\ IF download_transcript_raises(transcript_url, get, written)
           THEN pc' = "raised" /\ transcript' = transcript
           ELSE /\ pc' = "returned"
                /\ transcript' = download_transcript(transcript_url, get, body)
    /\ calls' = Append(calls, "download_transcript")
    /\ UNCHANGED <<youtube_url, language, video_id, html_content, download_links, tiers,
                   transcript_url, result, requests>>

NextDownload == CallDownloadTranscript

SpecDownload == InitDownload /\ [][NextDownload]_vars

(***************************************************************************)
(* process_youtube_url called on its own                                   *)
(***************************************************************************)
\* no get_transcript call is in progress
InnerIdle ==
    /\ requests = 1
    /\ youtube_url = Unset
    /\ video_id = Unset
    /\ html_content = NoHtml
    /\ download_links = <<>>
    /\ tiers = <<>>
    /\ transcript_url = Unset
    /\ response_text = Unset
    /\ result = Unset
    /\ events = <<>>
    /\ calls = <<>>

InitUrlProcessor ==
    /\ InnerIdle
    /\ pc = "process_url"
    /\ language = langEn
    /\ transcript = Unset
    /\ args_url \in ArgUrls
    /\ main_video_id = Unset
    /\ full_url = Unset
    /\ api_key = TRUE
    /\ summary = Unset

\* process_youtube_url, lines 81-99
ProcessYoutubeUrl ==
    /\ pc = "process_url"
    /\ main_video_id' = process_youtube_url(args_url)[1]
    /\ full_url' = process_youtube_url(args_url)[2]
    /\ pc' = "processed"
    /\ UNCHANGED <<youtube_url, language, video_id, html_content, download_links, tiers,
                   transcript_url, response_text, transcript, result, events, calls, requests,
                   args_url, api_key, summary>>

NextUrlProcessor == ProcessYoutubeUrl

SpecUrlProcessor == InitUrlProcessor /\ [][NextUrlProcessor]_vars

(***************************************************************************)
(* main: process_youtube_url, get_transcript, the test of its result       *)
(***************************************************************************)
InitMain ==
    /\ InnerIdle
    /\ pc = "main"
    /\ language \in Languages
    /\ transcript = Unset
    /\ args_url \in MainUrls
    /\ main_video_id = Unset
    /\ full_url = Unset
    /\ api_key = TRUE
    /\ summary = Unset

\* main, lines 49-63: an invalid URL ends main, a valid one is handed to
\* get_transcript as full_url
MainProcessUrl ==
    /\ pc = "main"
    /\ main_video_id' = process_youtube_url(args_url)[1]
    /\ full_url' = process_youtube_url(args_url)[2]
    /\ IF ~Truthy(main_video_id') \/ ~Truthy(full_url')
       THEN pc' = "exit_invalid" /\ youtube_url' = youtube_url
       ELSE pc' = "start" /\ youtube_url' = full_url'
    /\ UNCHANGED <<language, video_id, html_content, download_links, tiers,
                   transcript_url, response_text, transcript, result, events, calls, requests,
                   args_url, api_key, summary>>

\* main, lines 65-71
MainCheckTranscript ==
    /\ pc = "done"
    /\ pc' = IF ~Truthy(result) THEN "exit_failed" ELSE "summarize"
    /\ UNCHANGED <<youtube_url, language, video_id, html_content, download_links, tiers,
                   transcript_url, response_text, transcript, result, events, calls, requests,
                   args_url, main_video_id, full_url, api_key, summary>>

NextMain ==
    \/ MainProcessUrl
    \/ Resolve
    \/ SubmitUrlToDownsub
    \/ GetTranscriptOptions
    \/ DownloadTranscript
    \/ GetYoutubeTranscriptDirect
    \/ MainCheckTranscript

SpecMain == InitMain /\ [][NextMain]_vars

(***************************************************************************)
(* summarize_transcript called on its own                                  *)
(***************************************************************************)
InitSummarizer ==
    /\ InnerIdle
    /\ pc = "summarize_transcript"
    /\ language = langEn
    /\ transcript \in SummarizerTranscripts
    /\ args_url = Unset
    /\ main_video_id = Unset
    /\ full_url = Unset
    /\ api_key \in BOOLEAN
    /\ summary = Unset

\* summarize_transcript, lines 137-164
SummarizeTranscript ==
    /\ pc = "summarize_transcript"
    /\ pc' = "summarized"
    /\ IF ~Truthy(transcript)
       THEN summary' = None /\ events' = events /\ calls' = calls
       ELSE \E post \in NetOutcomes, reply \in LlmReplies :
            LET llm == summarize_with_llm(api_key, post, reply)
            IN  /\ events' = (IF api_key THEN <<Event("LLM_REQUEST", post)>> ELSE <<>>)
                                \o <<Event("LLM_RETURN", IF Truthy(llm) THEN 1 ELSE 0)>>
                /\ calls' = <<"summarize_with_llm">>
                                \o (IF UseFallback(llm) THEN <<"fallback_summarization">> ELSE <<>>)
                /\ summary' = IF UseFallback(llm) THEN fallback_summarization(transcript) ELSE llm
    /\ UNCHANGED <<youtube_url, language, video_id, html_content, download_links, tiers,
                   transcript_url, response_text, transcript, result, requests,
                   args_url, main_video_id, full_url, api_key>>

NextSummarizer == SummarizeTranscript

SpecSummarizer == InitSummarizer /\ [][NextSummarizer]_vars

TypeOK ==
    /\ pc \in {"start", "submit", "options", "download", "direct", "done", "raised",
              "normalize", "normalized", "call_download", "returned",
              "process_url", "processed", "main", "exit_invalid", "exit_failed", "summarize",
              "summarize_transcript", "summarized"}
    /\ requests \in 1..MaxRequests

(***************************************************************************)
(* Properties                                                              *)
(***************************************************************************)
Called(name) == \E k \in 1..Len(calls) : calls[k] = name

LastCall == IF calls = <<>> THEN "" ELSE calls[Len(calls)]

\* get_transcript has ended: it returned (done) or an exception left it (raised)
Terminated == pc \in {"done", "raised"}

NetworkOps == {"GET_ROOT", "POST", "GET_RESOURCE"}

\* a request that ended in a connection error or in an HTTP error status (4xx, 5xx)
IsNetworkFailure(outcome) == outcome = 0 \/ outcome >= 400

EveryNetworkCallFailed ==
    \A k \in 1..Len(events) :
        events[k].op \in NetworkOps => IsNetworkFailure(events[k].outcome)

\* the identifier was computed and is None or empty
ResolutionFailed == video_id = None \/ video_id = <<>>

Resolved == video_id # Unset /\ ~ResolutionFailed

\* C1: when an identifier is resolved and every network call fails, get_transcript
\* ends by returning the text of the direct/placeholder strategy, never None and
\* never by an exception.
C1_NetworkFailureFallsBack ==
    (Terminated /\ Resolved /\ EveryNetworkCallFailed) =>
        /\ pc = "done"
        /\ LastCall = "get_youtube_transcript_direct"
        /\ result # None
        /\ Len(result) > 0

C1_Witness ==
    /\ pc = "done"
    /\ Resolved
    /\ Len(events) > 0
    /\ EveryNetworkCallFailed
    /\ LastCall = "get_youtube_transcript_direct"
    /\ Len(result) > 0

\* C2: get_transcript always ends by returning a text or None, and None only when
\* no identifier was resolved.
C2_TextOrNotResolvable ==
    Terminated =>
        /\ pc = "done"
        /\ \/ result # None /\ Len(result) > 0
           \/ result = None /\ ResolutionFailed

\* C3: no failure of a scrape stage leaves get_transcript as an exception: each
\* makes the orchestrator go on to the next strategy.
C3_NoHardFault ==
    /\ pc # "raised"
    /\ (pc = "done" /\ Resolved /\ result # transcript) =>
            LastCall = "get_youtube_transcript_direct"

\* C4: a returned text is never empty; a download whose normalized text is empty
\* is a scrape failure and the next strategy produces the result.
C4_SuccessTextNonEmpty ==
    /\ (pc = "done" /\ result # None) => Len(result) > 0
    /\ (pc = "done" /\ transcript = <<>>) =>
            /\ LastCall = "get_youtube_transcript_direct"
            /\ result = get_youtube_transcript_direct(video_id)

C4_Witness ==
    /\ pc = "done"
    /\ response_text = payOnlyMarkup
    /\ transcript = <<>>
    /\ Len(result) > 0
    /\ LastCall = "get_youtube_transcript_direct"

Rank(name) ==
    CASE name = "submit_url_to_downsub" -> 1
      [] name = "get_transcript_options" -> 2
      [] name = "download_transcript" -> 3
      [] name = "get_youtube_transcript_direct" -> 4

\* the scrape strategy, as far as it ran, yielded nothing
ScrapeYieldedNothing ==
    \/ ~HtmlTruthy(html_content)
    \/ Called("get_transcript_options") /\ ~Truthy(transcript_url)
    \/ Called("download_transcript") /\ pc # "raised" /\ ~Truthy(transcript)

\* C5: the strategies are invoked only forward in the order resolve, scrape,
\* direct/placeholder, each at most once; a stage runs only after the stage before
\* it yielded something and the direct strategy only after the scrape yielded
\* nothing; a non-empty scrape text is the result and ends the call.
C5_ForwardOnly ==
    /\ \A i, j \in 1..Len(calls) : i < j => Rank(calls[i]) < Rank(calls[j])
    /\ calls # <<>> => Resolved /\ calls[1] = "submit_url_to_downsub"
    /\ Called("get_transcript_options") => HtmlTruthy(html_content)
    /\ Called("download_transcript") =>
            Called("get_transcript_options") /\ Truthy(transcript_url)
    /\ Called("get_youtube_transcript_direct") => ScrapeYieldedNothing
    /\ (LastCall = "download_transcript" /\ pc # "raised" /\ Truthy(transcript)) =>
            pc = "done" /\ result = transcript

C5_Witness ==
    /\ pc = "done"
    /\ calls = <<"submit_url_to_downsub", "get_transcript_options", "download_transcript">>
    /\ Len(transcript) > 0
    /\ result = transcript

\* C6: the placeholder strategy returns a non-empty text for every identifier: the
\* stored text for a known identifier, the generic text naming the identifier
\* otherwise.
C6_PlaceholderNeverFails ==
    (pc = "done" /\ LastCall = "get_youtube_transcript_direct") =>
        /\ result # None
        /\ Len(result) > 0
        /\ video_id = idRick => result = textRick
        /\ video_id = idMistral => result = textMistral
        /\ video_id \notin {idRick, idMistral} =>
                result = textGenericHead \o video_id \o textGenericTail

C6_Witness ==
    /\ pc = "done"
    /\ LastCall = "get_youtube_transcript_direct"
    /\ video_id = idRick
    /\ result = textRick

\* C7: when no identifier is resolved, get_transcript returns None at once: no
\* network request was issued and no strategy was invoked.
C7_NotResolvableIsImmediate ==
    ResolutionFailed =>
        /\ pc = "done"
        /\ result = None
        /\ events = <<>>
        /\ calls = <<>>

C7_Witness ==
    /\ youtube_url = urlShortEmpty
    /\ video_id = <<>>
    /\ pc = "done"
    /\ result = None
    /\ events = <<>>

\* get_transcript_options ran its three methods on html_content
Discovered == Called("get_transcript_options") /\ tiers # <<>>

\* C8: a tier contributes candidates only when every tier before it found none.
C8_TierOrdering ==
    Discovered =>
        LET t1 == DirectLinkTier(html_content, language)
            t2 == ButtonProxyTier(html_content, language)
            t3 == LooseLinkTier(html_content, language)
        IN  /\ t1 # <<>> => download_links = t1 /\ tiers = <<1>>
            /\ (t1 = <<>> /\ t2 # <<>>) => download_links = t2 /\ tiers = <<1, 2>>
            /\ (t1 = <<>> /\ t2 = <<>>) => download_links = t3 /\ tiers = <<1, 2, 3>>

C8_Witness ==
    /\ Discovered
    /\ html_content = docAllTiers
    /\ ButtonProxyTier(html_content, language) # <<>>
    /\ LooseLinkTier(html_content, language) # <<>>
    /\ Len(download_links) = 1
    /\ download_links[1].url = UrlJoin(hrefDl1)

\* C9: the link returned is the url of the first candidate, in document order,
\* whose text contains the lower-cased language code, or of the first candidate
\* when none does; language_match is that substring test; the list is left as
\* the tiers built it.
C9_LanguageSelection ==
    (Discovered /\ download_links # <<>>) =>
        /\ \A k \in 1..Len(download_links) :
                download_links[k].language_match
                    = Contains(download_links[k].text, Lower(language))
        /\ \/ \E k \in 1..Len(download_links) :
                /\ Contains(download_links[k].text, Lower(language))
                /\ \A j \in 1..(k - 1) :
                        ~Contains(download_links[j].text, Lower(language))
                /\ transcript_url = download_links[k].url
           \/ /\ \A k \in 1..Len(download_links) :
                    ~Contains(download_links[k].text, Lower(language))
              /\ transcript_url = download_links[1].url
        /\ download_links = DiscoverLinks(html_content, language)

C9_Witness ==
    /\ Discovered
    /\ Len(download_links) > 1
    /\ ~download_links[1].language_match
    /\ download_links[2].language_match
    /\ transcript_url = download_links[2].url

\* the anchors the direct-link tier scans and the ones it keeps
DownloadAnchors == {i \in 1..Len(html_content) : SelectsDownloadAnchor(html_content[i])}

\* the candidate Method 1 builds for anchor i
DirectCandidate(i) ==
    Candidate(html_content[i].href, LinkText(html_content, i),
              Contains(LinkText(html_content, i), Lower(language)))

KeptIn(links, i) == \E k \in 1..Len(links) : links[k] = DirectCandidate(i)

KeptByDirectLinkTier(i) == KeptIn(DirectLinkTier(html_content, language), i)

SubtitleMarkers == {sSrt, sTxt, sTranscript, sSubtitle}

\* C10 as stated: a download anchor is kept iff its link target or its text
\* contains one of the four markers, each marker accepted in either place.
C10_MarkerInEitherPlace ==
    Discovered =>
        LET kept == DirectLinkTier(html_content, language)
        IN  \A i \in DownloadAnchors :
                LET text == LinkText(html_content, i)
                IN  KeptIn(kept, i)
                        <=> \E m \in SubtitleMarkers :
                                Contains(html_content[i].href, m) \/ Contains(text, m)

\* C10 amended: a download anchor is kept iff its link target contains "srt" or
\* "txt", or its lower-cased text contains "transcript" or "subtitle".
C10_MarkerByPlace ==
    Discovered =>
        LET kept == DirectLinkTier(html_content, language)
        IN  \A i \in DownloadAnchors :
                LET text == LinkText(html_content, i)
                IN  KeptIn(kept, i)
                        <=> \/ Contains(html_content[i].href, sSrt)
                            \/ Contains(html_content[i].href, sTxt)
                            \/ Contains(text, sTranscript)
                            \/ Contains(text, sSubtitle)

C10_Witness ==
    /\ Discovered
    /\ html_content = docMarkers
    /\ ~KeptByDirectLinkTier(1)
    /\ ~KeptByDirectLinkTier(2)
    /\ KeptByDirectLinkTier(3)
    /\ Contains(LinkText(html_content, 1), sSrt)
    /\ Contains(html_content[2].href, sTranscript)

\* a time stamp HH:MM:SS,mmm (SubRip) or HH:MM:SS.mmm (WebVTT)
IsCaptionTimestamp(s) ==
    /\ Len(s) = 12
    /\ \A i \in {1, 2, 4, 5, 7, 8, 10, 11, 12} : s[i] \in Digits
    /\ s[3] = ":" /\ s[6] = ":" /\ s[9] \in {",", "."}

\* the four kinds of non-content lines of a timed-caption document
IsBlankLine(line) == \A i \in 1..Len(line) : line[i] \in Whitespace

IsSequenceNumber(line) == Len(line) > 0 /\ \A i \in 1..Len(line) : line[i] \in Digits

IsCaptionTimeRange(line) ==
    /\ Len(line) = 29
    /\ IsCaptionTimestamp(SubSeq(line, 1, 12))
    /\ SubSeq(line, 13, 17) = <<" ", "-", "-", ">", " ">>
    /\ IsCaptionTimestamp(SubSeq(line, 18, 29))

IsCaptionHeader(line) == Len(line) >= 6 /\ SubSeq(line, 1, 6) = <<"W", "E", "B", "V", "T", "T">>

IsNonContent(line) ==
    \/ IsBlankLine(line)
    \/ IsSequenceNumber(Strip(line))
    \/ IsCaptionTimeRange(Strip(line))
    \/ IsCaptionHeader(Strip(line))

\* the content lines of a document, trimmed, joined by single spaces, in order
ContentOf(text) ==
    LET kept == SelectSeq(Split(text, "\n"), LAMBDA line : ~IsNonContent(line))
    IN  Join([k \in 1..Len(kept) |-> Strip(kept[k])], <<" ">>)

\* C11: normalizing a timed-caption document yields exactly its content lines,
\* trimmed, joined by single spaces in their order; no blank line, sequence
\* number, time-range line or header line remains.
C11_RoundTrip ==
    (pc = "normalized" /\ transcript_url = resUrlSrt) =>
        transcript = ContentOf(response_text)

\* the part of a URL before its query and fragment
UrlPath(url) ==
    LET cut == {i \in 1..Len(url) : url[i] \in {"?", "#"}}
    IN  IF cut = {} THEN url
        ELSE SubSeq(url, 1, (CHOOSE i \in cut : \A j \in cut : i <= j) - 1)

\* the URL names a file with a caption extension
DeclaresCaptionExtension(url) ==
    \/ EndsWith(UrlPath(url), <<".", "s", "r", "t">>)
    \/ EndsWith(UrlPath(url), <<".", "v", "t", "t">>)

BeginsWithMarker(text) == Len(text) >= 6 /\ SubSeq(text, 1, 6) = <<"W", "E", "B", "V", "T", "T">>

\* C12 as stated: a payload is stripped of its non-content lines exactly when its
\* content begins with the caption marker or the URL declares a caption file
\* extension; every other payload is returned unchanged.
C12_MarkerAtStartOrExtension ==
    pc = "normalized" =>
        transcript = IF BeginsWithMarker(response_text) \/ DeclaresCaptionExtension(transcript_url)
                     THEN _convert_srt_to_text(response_text)
                     ELSE response_text

MarkerInHead(text) ==
    \E i \in 0..94 :
        i + 6 <= Len(text) /\ SubSeq(text, i + 1, i + 6) = <<"W", "E", "B", "V", "T", "T">>

\* C12 amended: a payload goes through _convert_srt_to_text exactly when the
\* resource URL ends with ".srt" or "WEBVTT" occurs within the first 100
\* characters of the content; every other payload is returned unchanged.
C12_SrtSuffixOrMarkerInHead ==
    pc = "normalized" =>
        transcript = IF EndsWith(transcript_url, <<".", "s", "r", "t">>) \/ MarkerInHead(response_text)
                     THEN _convert_srt_to_text(response_text)
                     ELSE response_text

C12_Witness ==
    /\ pc = "normalized"
    /\ transcript_url = resUrlPlain
    /\ ~BeginsWithMarker(response_text)
    /\ MarkerInHead(response_text)
    /\ transcript = _convert_srt_to_text(response_text)
    /\ transcript # response_text

CountOp(op) == Cardinality({k \in 1..Len(events) : events[k].op = op})

\* a request that got a response and did not raise
Succeeded(e) == ~IsNetworkFailure(e.outcome)

\* C13: within one get_transcript call each network operation is issued at most
\* once; the POST only after a successful root GET, the resource GET only after a
\* successful POST and with a selected candidate.
C13_NoRetry ==
    /\ \A op \in NetworkOps : CountOp(op) <= 1
    /\ \A k \in 1..Len(events) :
        /\ events[k].op = "POST" =>
                \E j \in 1..(k - 1) : events[j].op = "GET_ROOT" /\ Succeeded(events[j])
        /\ events[k].op = "GET_RESOURCE" =>
                /\ \E j \in 1..(k - 1) : events[j].op = "POST" /\ Succeeded(events[j])
                /\ transcript_url \notin {Unset, None, <<>>}

C13_Witness ==
    /\ pc = "done"
    /\ CountOp("GET_ROOT") = 1
    /\ CountOp("POST") = 1
    /\ CountOp("GET_RESOURCE") = 1
    /\ \E k \in 1..Len(events) : events[k].op = "GET_RESOURCE" /\ ~Succeeded(events[k])
    /\ LastCall = "get_youtube_transcript_direct"

\* the operation issuing event k yielded no body
NoBody(k) ==
    CASE events[k].op = "GET_ROOT" -> CountOp("POST") = 0 /\ html_content = NoHtml
      [] events[k].op = "POST" -> html_content = NoHtml
      [] events[k].op = "GET_RESOURCE" -> response_text = Unset /\ transcript \in {None, Unset}
      [] OTHER -> TRUE

\* the operation issuing event k went on with the response body
BodyUsed(k) ==
    CASE events[k].op = "GET_ROOT" -> CountOp("POST") = 1
      [] events[k].op = "POST" -> html_content # NoHtml
      [] events[k].op = "GET_RESOURCE" -> response_text # Unset
      [] OTHER -> TRUE

C15_DelayBeforeResourceGet ==
    /\ \A k \in 1..Len(events) :
        events[k].op = "GET_RESOURCE" =>
            k > 1 /\ events[k - 1].op = "SLEEP" /\ events[k - 1].outcome >= 1
    /\ (pc \in {"returned", "raised"} /\ transcript_url \in {None, <<>>}) =>
            events = <<>> /\ transcript = None /\ pc = "returned"
    /\ (pc \in {"returned", "raised"} /\ transcript_url \notin {None, <<>>}) =>
            CountOp("SLEEP") = 1 /\ CountOp("GET_RESOURCE") = 1

C15_Witness ==
    /\ pc = "returned"
    /\ Len(events) >= 2
    /\ events[1].op = "SLEEP"
    /\ events[2].op = "GET_RESOURCE"
    /\ events[2].outcome = 200

\* characters that end an identifier in a URL
UrlDelimiters == {"/", "?", "#", "&", "="}

\* the short-path form host/<id>: scheme, short host, one non-empty path segment
IsShortPathForm(url) ==
    \E scheme \in {sHttp, sHttps} :
        LET head == scheme \o sYoutuBe \o <<"/">>
        IN  /\ StartsWith(url, head)
            /\ Len(url) > Len(head)
            /\ \A i \in (Len(head) + 1)..Len(url) : url[i] \notin UrlDelimiters

\* the query-parameter form host/watch?v=<id>: scheme, long host with or without
\* www., the watch path and a query holding a non-empty v parameter
IsQueryParameterForm(url) ==
    \E scheme \in {sHttp, sHttps}, www \in {<<>>, <<"w", "w", "w", ".">>} :
        LET head == scheme \o www \o sYoutubeCom \o <<"/", "w", "a", "t", "c", "h", "?">>
        IN  /\ StartsWith(url, head)
            /\ \E i \in Len(head)..(Len(url) - 2) :
                /\ url[i] \in {"?", "&"}
                /\ url[i + 1] = "v"
                /\ url[i + 2] = "="
                /\ i + 3 <= Len(url)
                /\ url[i + 3] \notin UrlDelimiters
                /\ \A j \in 1..i : url[j] # "#"

RecognizedShape(url) == IsShortPathForm(url) \/ IsQueryParameterForm(url)

\* C17: the orchestrator resolves an identifier only for the short-path form and
\* the query-parameter form; for a URL of any other shape get_transcript ends at
\* once with None.
C17_OnlyRecognizedShapesResolve ==
    (video_id # Unset /\ ~RecognizedShape(youtube_url)) =>
        /\ ResolutionFailed
        /\ pc = "done"
        /\ result = None

\* the dump write of the call named op failed
WriteFailed(op) == \E k \in 1..Len(events) : events[k].op = op /\ events[k].outcome = 0

\* C18: the outcome of the two dump writes changes neither the candidate
\* selected, nor the text download_transcript returns, nor the strategy that
\* produces the result.
C18_DumpWritesAreSideEffects ==
    /\ Called("get_transcript_options") =>
            /\ transcript_url = OptionsResult(html_content, language, TRUE)
            /\ (Truthy(OptionsResult(html_content, language, TRUE)) /\ pc = "done") =>
                    Called("download_transcript")
    /\ (Called("download_transcript") /\ response_text # Unset) =>
            /\ pc # "raised"
            /\ transcript = DownloadResult(transcript_url, 200, response_text)

\* the identifier an accepted URL carries: the 11 characters that end the short
\* form, or that follow "watch?v=" in the query form
CarriedId(url) ==
    IF youtu_be_pattern(url)
    THEN LET last == IF url[Len(url)] = "\n" THEN Len(url) - 1 ELSE Len(url)
         IN  SubSeq(url, last - 10, last)
    ELSE SubSeq(url, FirstOf(url, {"="}) + 1, FirstOf(url, {"="}) + 11)

\* C16: for a URL that validate_youtube_url accepts, process_youtube_url returns
\* the 11-character identifier of the URL and the watch URL built from it; for a
\* rejected URL it returns (None, None).
C16_AcceptedUrlGivesItsId ==
    pc = "processed" =>
        IF validate_youtube_url(args_url)
        THEN /\ main_video_id = CarriedId(args_url)
             /\ full_url = <<"h", "t", "t", "p", "s", ":", "/", "/", "w", "w", "w", ".">>
                            \o sYoutubeCom \o <<"/", "w", "a", "t", "c", "h", "?", "v", "=">>
                            \o CarriedId(args_url)
        ELSE main_video_id = None /\ full_url = None

\* summarize_transcript returned
Summarized == pc = "summarized"

\* the value summarize_with_llm returned was a summary
LlmYieldedSummary == \E k \in 1..Len(events) : events[k].op = "LLM_RETURN" /\ events[k].outcome = 1

\* C19: summarize_transcript sends at most one LLM request, runs the fallback
\* only when the LLM step gave no summary, returns a non-empty summary for every
\* non-empty transcript, and returns None only for an empty transcript, for which
\* neither the LLM step nor the fallback runs.
C19_SummaryOrNone ==
    Summarized =>
        /\ CountOp("LLM_REQUEST") <= 1
        /\ Called("fallback_summarization") => ~LlmYieldedSummary
        /\ transcript \notin {None, <<>>} => summary \notin {None, <<>>, Unset}
        /\ summary = None <=> transcript \in {None, <<>>}
        /\ transcript \in {None, <<>>} => events = <<>> /\ calls = <<>>

C19_Witness ==
    /\ Summarized
    /\ api_key
    /\ events = <<[op |-> "LLM_REQUEST", outcome |-> 200], [op |-> "LLM_RETURN", outcome |-> 0]>>
    /\ Called("fallback_summarization")
    /\ Len(transcript) > 20
    /\ summary # transcript
    /\ summary \notin {None, <<>>}

\* C20: once process_youtube_url has given main an identifier and a full URL,
\* get_transcript(full_url) returns a non-empty text whatever the network calls
\* do, so main never takes the "Failed to download transcript" exit and goes on
\* to summarization, unless an exception leaves get_transcript.
C20_AcquisitionCannotFail ==
    /\ pc # "exit_failed"
    /\ (main_video_id \notin {Unset, None, <<>>} /\ pc \in {"done", "summarize"}) =>
            result \notin {Unset, None, <<>>}

C20_Witness ==
    /\ pc = "summarize"
    /\ events # <<>>
    /\ EveryNetworkCallFailed
    /\ main_video_id = idOther
    /\ result = textGenericHead \o idOther \o textGenericTail

====
